---- MODULE Spec2Model ----
(***************************************************************************)
(* A model of internal/dataplane/kongstate/kongstate.go: the KongState     *)
(* snapshot and the passes that fill it from a store                       *)
(* (FillConsumersAndCredentials, FillOverrides, FillPlugins) and           *)
(* SanitizedCopy.                                                          *)
(*                                                                         *)
(* Go strings that the code concatenates or splits (namespaces, resource   *)
(* names, plugin names read from annotations) are sequences of one         *)
(* character strings, so that namespace + ":" + name followed by           *)
(* strings.Split is computed and not assumed to be a round trip.  Other    *)
(* strings are TLA+ strings.  A nil pointer is the value Nil.  A Go map is *)
(* a function; ranging over a map visits its keys in an order chosen       *)
(* nondeterministically.                                                   *)
(***************************************************************************)
EXTENDS Naturals, Sequences, FiniteSets, TLC

VARIABLES
    store,    \* what the store.Storer answers; fixed during an assembly cycle
    ks,       \* the KongState being filled
    copy,     \* what SanitizedCopy returned, while it is the last operation
    crashed,  \* TRUE once a pass has panicked (nil pointer dereference)
    last,     \* the operation that ran last
    nCons     \* how many times FillConsumersAndCredentials has run

vars == <<store, ks, copy, crashed, last, nCons>>

\* ----------------------------------------------------------------- bounds

MaxConsumers == 2
MaxCreds == 2
MaxRuns == 2
MaxRoutes == 2
MaxClusterPlugins == 3
MaxServices == 2

\* ---------------------------------------------------------------- helpers

Nil == "<nil>"

SeqsUpTo(S, n) == UNION {[1..k -> S] : k \in 0..n}

Range(s) == {s[i] : i \in DOMAIN s}

\* The orders in which a range over a Go map with key set S may visit it.
Orders(S) == {o \in [1..Cardinality(S) -> S] : \A i, j \in DOMAIN o : o[i] = o[j] => i = j}

RECURSIVE Count(_, _)
Count(s, x) ==
    IF s = <<>> THEN 0
    ELSE (IF Head(s) = x THEN 1 ELSE 0) + Count(Tail(s), x)

\* Two slices hold the same entries the same number of times.
SameBag(s, t) ==
    /\ Len(s) = Len(t)
    /\ \A x \in Range(s) \cup Range(t) : Count(s, x) = Count(t, x)

\* strings.Split(s, sep) for a one character separator: the pieces between
\* the separators, always at least one piece.
RECURSIVE SplitAcc(_, _, _)
SplitAcc(s, sep, cur) ==
    IF s = <<>> THEN <<cur>>
    ELSE IF Head(s) = sep THEN <<cur>> \o SplitAcc(Tail(s), sep, <<>>)
    ELSE SplitAcc(Tail(s), sep, Append(cur, Head(s)))

Split(s, sep) == SplitAcc(s, sep, <<>>)

\* strconv.ParseBool: the accepted spellings; anything else is an error.
ParseBoolTrue == {"1", "t", "T", "TRUE", "true", "True"}
ParseBoolFalse == {"0", "f", "F", "FALSE", "false", "False"}

\* ------------------------------------------- the store's fixed content

NS == <<"n">>
NS2 == <<"n", "a">>

\* The secrets of the store, all in namespace NS; any other reference fails.
Secrets ==
    (<<NS, "key">> :> [kongCredType |-> "key-auth", key |-> "secret123"])
    @@ (<<NS, "basic">> :> [kongCredType |-> "basic-auth", username |-> "alice", password |-> "pw"])
    @@ (<<NS, "oauth">> :> [kongCredType |-> "oauth2", client_id |-> "id", client_secret |-> "cs",
                            hash_secret |-> "not-a-bool", redirect_uris |-> <<"a", ",", "b">>])
    @@ (<<NS, "nokind">> :> [key |-> "secret123", ttl |-> "5"])
    @@ (<<NS, "bogus">> :> [kongCredType |-> "bogus", key |-> "x"])
    @@ (<<NS, "empty">> :> [kongCredType |-> "key-auth"])
    @@ (<<NS, "bad">> :> [kongCredType |-> "key-auth", ttl |-> "5"])

\* Plugin names as annotations carry them; an annotation's value is free text.
P == <<"p">>
Q == <<"q">>
PX == <<"p", ":", "x">>

\* The KongIngresses and the KongPlugins of the store; any other lookup fails.
KongIngresses == {<<NS, "ki">>, <<NS, "ki2">>}

KongPlugins == (<<NS, P>> :> "rate-limiting")

\* -------------------------------------------------- consumers, credentials

\* credentials.SupportedTypes
SupportedTypes == {"basic-auth", "hmac-auth", "jwt", "key-auth", "oauth2", "acl", "mtls-auth"}

\* The field a credential of each kind cannot do without; the setter knows
\* no such field for a kind it has no schema for.
RequiredField(credType) ==
    CASE credType = "key-auth" -> "key"
      [] credType = "basic-auth" -> "username"
      [] credType = "hmac-auth" -> "username"
      [] credType = "jwt" -> "key"
      [] credType = "oauth2" -> "client_id"
      [] credType = "acl" -> "group"
      [] credType = "mtls-auth" -> "subject_name"
      [] OTHER -> ""

\* Consumer.SetCredential: [err, c]; the consumer with one more credential,
\* or an error on a structural validation error of the kind-specific setter.
SetCredential(c, credType, credConfig) ==
    IF RequiredField(credType) \notin DOMAIN credConfig \cup {""} THEN [err |-> TRUE, c |-> c]
    ELSE [err |-> FALSE,
          c |-> [c EXCEPT !.Credentials = Append(@, [kind |-> credType, config |-> credConfig])]]

\* s.GetSecret(namespace, name): [err, data]; the secret's Data, or an error.
GetSecret(s, namespace, name) ==
    IF <<namespace, name>> \in DOMAIN Secrets
    THEN [err |-> FALSE, data |-> Secrets[<<namespace, name>>]]
    ELSE [err |-> TRUE, data |-> <<>>]

\* Lines 82-105: the secret's Data as a credential config.
CredConfig(data) ==
    [k \in DOMAIN data |->
        IF k = "redirect_uris" THEN Split(data[k], ",")
        ELSE IF k = "hash_secret"
             THEN (IF data[k] \in ParseBoolTrue THEN TRUE
                   ELSE IF data[k] \in ParseBoolFalse THEN FALSE
                   ELSE FALSE)   \* parse error: defaults to false
        ELSE data[k]]

\* Line 106: credConfig["kongCredType"].(string); "" when the key is absent.
CredType(credConfig) ==
    IF "kongCredType" \in DOMAIN credConfig THEN credConfig["kongCredType"] ELSE ""

\* A variant of ProcessCredential without the supported-kind check.
ProcessCredentialAnyKind(s, c, namespace, cred) ==
    LET secret == GetSecret(s, namespace, cred) IN
    IF secret.err THEN c
    ELSE LET credConfig == CredConfig(secret.data)
             credType == CredType(credConfig)
             set == SetCredential(c, credType, credConfig)
         IN IF Cardinality(DOMAIN credConfig) <= 1 THEN c
            ELSE IF set.err THEN c
            ELSE set.c

\* Lines 72-125, one iteration: the consumer after credential reference cred
\* has been processed.
ProcessCredential(s, c, namespace, cred) ==
    LET secret == GetSecret(s, namespace, cred) IN
    IF secret.err THEN c
    ELSE LET credConfig == CredConfig(secret.data)
             credType == CredType(credConfig)
             set == SetCredential(c, credType, credConfig)
         IN IF credType \notin SupportedTypes THEN c
            ELSE IF Cardinality(DOMAIN credConfig) <= 1 THEN c
            ELSE IF set.err THEN c
            ELSE set.c

\* A variant of ProcessCredentials that leaves the loop (break) at the first
\* secret it cannot fetch.
RECURSIVE ProcessCredentialsBreakOnError(_, _, _, _)
ProcessCredentialsBreakOnError(s, c, namespace, creds) ==
    IF creds = <<>> THEN c
    ELSE IF GetSecret(s, namespace, Head(creds)).err THEN c
    ELSE ProcessCredentialsBreakOnError(s, ProcessCredential(s, c, namespace, Head(creds)),
                                        namespace, Tail(creds))

\* Lines 72-125: the consumer after the loop over consumer.Credentials.
RECURSIVE ProcessCredentials(_, _, _, _)
ProcessCredentials(s, c, namespace, creds) ==
    IF creds = <<>> THEN c
    ELSE ProcessCredentials(s, ProcessCredential(s, c, namespace, Head(creds)),
                            namespace, Tail(creds))

\* Lines 56-66: the Consumer built for a KongConsumer resource, before its
\* credentials.
NewConsumer(consumer) ==
    [Username |-> IF consumer.Username # "" THEN consumer.Username ELSE Nil,
     CustomID |-> IF consumer.CustomID # "" THEN consumer.CustomID ELSE Nil,
     K8sKongConsumer |-> consumer,
     Credentials |-> <<>>]

\* Line 127: the consumer index key.
ConsumerKey(consumer) == consumer.Namespace \o <<"/">> \o consumer.Name

\* A variant of IndexConsumer that materializes a consumer without identity.
IndexConsumerNoIdentityCheck(s, index, consumer) ==
    (ConsumerKey(consumer) :>
        ProcessCredentials(s, NewConsumer(consumer), consumer.Namespace, consumer.Credentials))
    @@ index

\* Lines 55-128, one iteration: the index after one KongConsumer.
IndexConsumer(s, index, consumer) ==
    IF consumer.Username = "" /\ consumer.CustomID = "" THEN index
    ELSE (ConsumerKey(consumer) :>
            ProcessCredentials(s, NewConsumer(consumer), consumer.Namespace, consumer.Credentials))
         @@ index

RECURSIVE BuildConsumerIndex(_, _, _)
BuildConsumerIndex(s, index, consumers) ==
    IF consumers = <<>> THEN index
    ELSE BuildConsumerIndex(s, IndexConsumer(s, index, Head(consumers)), Tail(consumers))

\* Lines 52-128: consumerIndex after the loop over s.ListKongConsumers().
ConsumerIndex(s) == BuildConsumerIndex(s, <<>>, s.Consumers)

\* ------------------------------------------------------------ SanitizedCopy

Redacted == "{vault://redacted-value}"

SensitiveFields == {"key", "password", "secret", "client_secret", "rsa_public_key"}

\* Certificate.SanitizedCopy
SanitizeCertificate(cert) == [cert EXCEPT !.Key = Redacted]

SanitizeCredential(cred) ==
    [cred EXCEPT !.config =
        [k \in DOMAIN cred.config |-> IF k \in SensitiveFields THEN Redacted ELSE cred.config[k]]]

\* Consumer.SanitizedCopy
SanitizeConsumer(c) ==
    [c EXCEPT !.Credentials = [i \in DOMAIN c.Credentials |-> SanitizeCredential(c.Credentials[i])]]

\* The zero value of semver.Version.
ZeroVersion == "0.0.0"

\* Lines 30-49: the KongState literal SanitizedCopy returns; Version is not
\* among the fields it sets, so it is the zero value.
SanitizedCopyOf(k) ==
    [Services |-> k.Services,
     Upstreams |-> k.Upstreams,
     Certificates |-> [i \in DOMAIN k.Certificates |-> SanitizeCertificate(k.Certificates[i])],
     CACertificates |-> k.CACertificates,
     Plugins |-> k.Plugins,
     Consumers |-> [i \in DOMAIN k.Consumers |-> SanitizeConsumer(k.Consumers[i])],
     Version |-> ZeroVersion]

\* ------------------------------------------------------------ FillOverrides

\* The value of an entity's overridable fields before any override.
DefaultOverride == "default"

\* s.GetKongIngress(namespace, name): the KongIngress, or Nil on error.
GetKongIngress(s, namespace, name) ==
    IF <<namespace, name>> \in KongIngresses THEN name ELSE Nil

\* getKongIngressForServices: the KongIngress named by the first service
\* that names one; no service naming one is no KongIngress and no error.
RECURSIVE getKongIngressForServices(_, _)
getKongIngressForServices(s, services) ==
    IF services = <<>> THEN [err |-> FALSE, ki |-> Nil]
    ELSE IF Head(services).Conf = "" THEN getKongIngressForServices(s, Tail(services))
    ELSE LET ki == GetKongIngress(s, Head(services).Namespace, Head(services).Conf)
         IN [err |-> ki = Nil, ki |-> ki]

\* getKongIngressFromObjectMeta: the KongIngress an Ingress names.
getKongIngressFromObjectMeta(s, ingress) ==
    IF ingress.Conf = "" THEN [err |-> FALSE, ki |-> Nil]
    ELSE LET ki == GetKongIngress(s, ingress.Namespace, ingress.Conf)
         IN [err |-> ki = Nil, ki |-> ki]

\* Service.override, Route.override, Upstream.override: a KongIngress sets
\* the entity's overridable fields; none leaves them.
override(entity, kongIngress) ==
    IF kongIngress = Nil THEN entity ELSE [entity EXCEPT !.Override = kongIngress]

\* Lines 147-149 and 175-177: override called once per K8s service.
RECURSIVE overrideForEach(_, _, _)
overrideForEach(entity, kongIngress, services) ==
    IF services = <<>> THEN entity
    ELSE overrideForEach(override(entity, kongIngress), kongIngress, Tail(services))

\* Lines 153-161: a route's lookup and override; a failed lookup leaves
\* kongIngress nil and override is still called.
OverrideRoute(s, route) ==
    override(route, getKongIngressFromObjectMeta(s, route.Ingress).ki)

\* Lines 139-162, one iteration: a failed lookup for the service continues
\* with the next service, before the loop over its routes.
OverrideService(s, service) ==
    LET r == getKongIngressForServices(s, service.K8sServices) IN
    IF r.err THEN service
    ELSE LET svc == overrideForEach(service, r.ki, service.K8sServices)
         IN [svc EXCEPT !.Routes = [j \in DOMAIN svc.Routes |-> OverrideRoute(s, svc.Routes[j])]]

\* Lines 167-177, one iteration.
OverrideUpstream(s, upstream) ==
    LET r == getKongIngressForServices(s, upstream.Service.K8sServices) IN
    IF r.err THEN upstream
    ELSE overrideForEach(upstream, r.ki, upstream.Service.K8sServices)

\* Lines 136-179.
FillOverridesOf(s, k) ==
    [k EXCEPT !.Services = [i \in DOMAIN k.Services |-> OverrideService(s, k.Services[i])],
              !.Upstreams = [i \in DOMAIN k.Upstreams |-> OverrideUpstream(s, k.Upstreams[i])]]

\* -------------------------------------------------------------- FillPlugins

NoRelations == [Consumer |-> <<>>, Route |-> <<>>, Service |-> <<>>]

\* Lines 184-210: addConsumerRelation, addRouteRelation, addServiceRelation;
\* e.kind is the partition the identifier is appended to.
AddRelation(rels, e) ==
    LET pluginKey == e.namespace \o <<":">> \o e.pluginName
        relations == IF pluginKey \in DOMAIN rels THEN rels[pluginKey] ELSE NoRelations
    IN (pluginKey :> [relations EXCEPT ![e.kind] = Append(@, e.identifier)]) @@ rels

RelationEntries(kind, namespace, pluginList, identifier) ==
    [n \in DOMAIN pluginList |->
        [kind |-> kind, namespace |-> namespace, pluginName |-> pluginList[n],
         identifier |-> identifier]]

RECURSIVE Flatten(_)
Flatten(ss) == IF ss = <<>> THEN <<>> ELSE Head(ss) \o Flatten(Tail(ss))

\* Lines 214-219: the relations of one Service's K8s services.
ServiceEntries(service) ==
    Flatten([n \in DOMAIN service.K8sServices |->
        RelationEntries("Service", service.K8sServices[n].Namespace,
                        service.K8sServices[n].Plugins, service.Name)])

\* Lines 221-227: the relations of one Service's routes.
RouteEntries(service) ==
    Flatten([j \in DOMAIN service.Routes |->
        RelationEntries("Route", service.Routes[j].Ingress.Namespace,
                        service.Routes[j].Ingress.Plugins, service.Routes[j].Name)])

\* Lines 230-235: the relations of the consumers; *c.Username is read for
\* each plugin a consumer's annotations name.
ConsumerEntries(k) ==
    Flatten([n \in DOMAIN k.Consumers |->
        RelationEntries("Consumer", k.Consumers[n].K8sKongConsumer.Namespace,
                        k.Consumers[n].K8sKongConsumer.Plugins, k.Consumers[n].Username)])

\* Line 233 dereferences a nil Username: a panic.
RelationsPanic(k) ==
    \E n \in DOMAIN k.Consumers :
        /\ k.Consumers[n].K8sKongConsumer.Plugins # <<>>
        /\ k.Consumers[n].Username = Nil

RECURSIVE AddRelations(_, _)
AddRelations(rels, entries) ==
    IF entries = <<>> THEN rels
    ELSE AddRelations(AddRelation(rels, Head(entries)), Tail(entries))

\* Lines 181-237.
getPluginRelations(k) ==
    AddRelations(<<>>,
        Flatten([i \in DOMAIN k.Services |-> ServiceEntries(k.Services[i]) \o RouteEntries(k.Services[i])])
        \o ConsumerEntries(k))

Rel(service, route, consumer) == [Service |-> service, Route |-> route, Consumer |-> consumer]

\* ForeignRelations.GetCombinations: with consumers, each service and each
\* route paired with each consumer (or the consumers alone); without, each
\* service and each route alone.
GetCombinations(relations) ==
    IF relations.Consumer # <<>>
    THEN IF Len(relations.Route) + Len(relations.Service) > 0
         THEN Flatten([i \in DOMAIN relations.Service |->
                  [c \in DOMAIN relations.Consumer |->
                      Rel(relations.Service[i], "", relations.Consumer[c])]])
              \o Flatten([j \in DOMAIN relations.Route |->
                  [c \in DOMAIN relations.Consumer |->
                      Rel("", relations.Route[j], relations.Consumer[c])]])
         ELSE [c \in DOMAIN relations.Consumer |-> Rel("", "", relations.Consumer[c])]
    ELSE [i \in DOMAIN relations.Service |-> Rel(relations.Service[i], "", "")]
         \o [j \in DOMAIN relations.Route |-> Rel("", relations.Route[j], "")]

NoPlugin == [Name |-> "", Source |-> <<<<>>, <<>>>>, Service |-> Nil, Route |-> Nil, Consumer |-> Nil]

\* getPlugin(s, namespace, name): [err, plugin]; the KongPlugin's plugin, or
\* an error.
getPlugin(s, namespace, name) ==
    IF <<namespace, name>> \in DOMAIN KongPlugins
    THEN [err |-> FALSE,
          plugin |-> [NoPlugin EXCEPT !.Name = KongPlugins[<<namespace, name>>],
                                      !.Source = <<namespace, name>>]]
    ELSE [err |-> TRUE, plugin |-> NoPlugin]

\* Lines 255-267: the plugin bound to one combination.
BoundPlugin(plugin, rel) ==
    [plugin EXCEPT !.Service = IF rel.Service # "" THEN rel.Service ELSE @,
                   !.Route = IF rel.Route # "" THEN rel.Route ELSE @,
                   !.Consumer = IF rel.Consumer # "" THEN rel.Consumer ELSE @]

\* Lines 243-268, one iteration: the plugins appended for one relation key.
PluginsForKey(s, pluginIdentifier, relations) ==
    LET identifier == Split(pluginIdentifier, ":")
        got == getPlugin(s, identifier[1], identifier[2])
        combinations == GetCombinations(relations)
    IN IF got.err THEN <<>>
       ELSE [n \in DOMAIN combinations |-> BoundPlugin(got.plugin, combinations[n])]

\* kongPluginFromK8SClusterPlugin: [err, plugin]; the plugin of a
\* KongClusterPlugin, or an error.
kongPluginFromK8SClusterPlugin(s, k8sPlugin) ==
    IF k8sPlugin.Converts
    THEN [err |-> FALSE,
          plugin |-> [NoPlugin EXCEPT !.Name = k8sPlugin.PluginName,
                                      !.Source = <<<<>>, k8sPlugin.Name>>]]
    ELSE [err |-> TRUE, plugin |-> NoPlugin]

\* Lines 304-330, one iteration: acc.res and acc.duplicates after one
\* KongClusterPlugin.
ScanClusterPlugin(s, acc, k8sPlugin) ==
    LET pluginName == k8sPlugin.PluginName
        got == kongPluginFromK8SClusterPlugin(s, k8sPlugin)
    IN IF pluginName = "" THEN acc
       ELSE IF pluginName \in DOMAIN acc.res
            THEN [acc EXCEPT !.duplicates = Append(@, pluginName)]
       ELSE IF ~got.err
            THEN [acc EXCEPT !.res = (pluginName :> got.plugin) @@ @]
       ELSE acc

RECURSIVE ScanClusterPlugins(_, _, _)
ScanClusterPlugins(s, acc, plugins) ==
    IF plugins = <<>> THEN acc
    ELSE ScanClusterPlugins(s, ScanClusterPlugin(s, acc, Head(plugins)), Tail(plugins))

\* Lines 292-333 for a list of KongClusterPlugins: res after the duplicates
\* have been deleted from it.
DeduplicatedPlugins(s, clusterPlugins) ==
    LET acc == ScanClusterPlugins(s, [res |-> <<>>, duplicates |-> <<>>], clusterPlugins)
    IN [n \in DOMAIN acc.res \ Range(acc.duplicates) |-> acc.res[n]]

\* Lines 280-339: [err, res]; an error of either listing returns no plugin.
\* Each listing of the store is [err, items].
globalPlugins(s) ==
    IF s.GlobalKongPlugins.err THEN [err |-> TRUE, res |-> <<>>]
    ELSE IF s.GlobalKongClusterPlugins.err THEN [err |-> TRUE, res |-> <<>>]
    ELSE [err |-> FALSE, res |-> DeduplicatedPlugins(s, s.GlobalKongClusterPlugins.items)]

\* Lines 239-278 and 334-337: the plugin lists buildPlugins may return, one
\* for each order in which the two maps may be ranged over.
buildPlugins(s, pluginRels) ==
    LET global == globalPlugins(s).res IN
    {Flatten([n \in DOMAIN order |-> PluginsForKey(s, order[n], pluginRels[order[n]])])
       \o [n \in DOMAIN gorder |-> global[gorder[n]]] :
     order \in Orders(DOMAIN pluginRels), gorder \in Orders(DOMAIN global)}

\* ------------------------------------------------------- stores, snapshots

SecretNames == {"key", "basic", "oauth", "nokind", "bogus", "empty", "bad", "missing"}

ClusterPlugin(n, pluginName, converts) ==
    [Name |-> <<"k", n>>, PluginName |-> pluginName, Converts |-> converts]

Listing(items) == [err |-> FALSE, items |-> items]
ListingError == [err |-> TRUE, items |-> <<>>]

BaseStore ==
    [Consumers |-> <<>>,
     GlobalKongPlugins |-> Listing(<<>>),
     GlobalKongClusterPlugins |-> Listing(<<ClusterPlugin("1", "cors", TRUE)>>)]

BaseKS ==
    [Services |-> <<>>, Upstreams |-> <<>>, Certificates |-> <<>>, CACertificates |-> <<>>,
     Plugins |-> <<>>, Consumers |-> <<>>, Version |-> "2.8.0"]

NoCopy == [Version |-> "<no copy>"]

KongConsumer(namespace, name, username, customID, credentials, plugins) ==
    [Namespace |-> namespace, Name |-> name, Username |-> username, CustomID |-> customID,
     Credentials |-> credentials, Plugins |-> plugins]

K8sService(plugins, conf) == [Namespace |-> NS, Plugins |-> plugins, Conf |-> conf]

Ingress(namespace, plugins, conf) == [Namespace |-> namespace, Plugins |-> plugins, Conf |-> conf]

EntityNames == <<"1", "2", "3", "4">>

Route(j, ingress) == [Name |-> "route" \o EntityNames[j], Ingress |-> ingress, Override |-> DefaultOverride]

Service(i, k8sServices, ingresses) ==
    [Name |-> "service" \o EntityNames[i], K8sServices |-> k8sServices,
     Routes |-> [j \in DOMAIN ingresses |-> Route(j, ingresses[j])],
     Override |-> DefaultOverride]

Upstream(service) == [Name |-> service.Name, Service |-> service, Override |-> DefaultOverride]

World(s, k) == [store |-> s, ks |-> k]

Identities == {<<"alice", "">>, <<"", "id-1">>, <<"alice", "id-1">>}

\* One consumer, every list of credential references.
CredentialWorlds ==
    {World([BaseStore EXCEPT !.Consumers =
                <<KongConsumer(NS, <<"b">>, id[1], id[2], creds, <<>>)>>],
           BaseKS) :
     id \in Identities, creds \in SeqsUpTo(SecretNames, MaxCreds)}

\* Two objects whose namespace and name differ but read the same once put
\* side by side; each with every identity, and none.
ConsumerObjects == {<<NS, <<"a", "b">>>>, <<NS2, <<"b">>>>}

ConsumerChoices ==
    {KongConsumer(object[1], object[2], id[1], id[2], <<"key">>, <<>>) :
     object \in ConsumerObjects, id \in Identities \cup {<<"", "">>}}

\* Every list of consumers, consumers without identity and consumers of the
\* same namespace and name among them.
ConsumerWorlds ==
    {World([BaseStore EXCEPT !.Consumers = consumers], BaseKS) :
     consumers \in SeqsUpTo(ConsumerChoices, MaxConsumers)}

Confs == {"", "ki", "gone"}

OverrideServiceChoices ==
    {[k8s |-> k8s, ingresses |-> ingresses] :
     k8s \in {<<>>} \cup {<<K8sService(<<>>, conf)>> : conf \in Confs},
     ingresses \in SeqsUpTo({Ingress(NS, <<>>, conf) : conf \in {"", "ki2", "gone"}}, MaxRoutes)}

\* Every list of services with their routes, and an upstream per service,
\* each entity with or without a KongIngress, found or not.
OverrideWorlds ==
    {LET services == [i \in DOMAIN choice |-> Service(i, choice[i].k8s, choice[i].ingresses)]
     IN World(BaseStore,
              [BaseKS EXCEPT !.Services = services,
                             !.Upstreams = [i \in DOMAIN services |-> Upstream(services[i])]]) :
     choice \in SeqsUpTo(OverrideServiceChoices, MaxServices)}

\* The plugin lists of an annotation, each name at most once.
PluginLists == {<<>>, <<P>>, <<Q>>, <<P, Q>>, <<PX>>}

PluginConsumers ==
    {<<>>,
     <<KongConsumer(NS, <<"b">>, "alice", "", <<>>, <<>>)>>,
     <<KongConsumer(NS, <<"b">>, "alice", "", <<>>, <<P>>)>>,
     <<KongConsumer(NS, <<"b">>, "", "id-1", <<>>, <<P>>)>>}

\* One service, every list of routes and every annotation on each.
PluginWorlds ==
    {World([BaseStore EXCEPT !.Consumers = consumers],
           [BaseKS EXCEPT !.Services = <<Service(1, <<K8sService(plugins, "")>>, ingresses)>>]) :
     consumers \in PluginConsumers,
     plugins \in PluginLists,
     ingresses \in SeqsUpTo({Ingress(namespace, list, "") :
                                namespace \in {NS, NS2}, list \in PluginLists}, MaxRoutes)}

ClusterPluginChoices ==
    {[pluginName |-> n, converts |-> b] : n \in {"", "cors", "jwt"}, b \in BOOLEAN}

LegacyListings == {ListingError, Listing(<<>>), Listing(<<"old">>)}

\* Every list of KongClusterPlugins and every answer of the legacy listing.
GlobalPluginWorlds ==
    {World([BaseStore EXCEPT !.GlobalKongPlugins = legacy, !.GlobalKongClusterPlugins = cluster],
           [BaseKS EXCEPT !.Services = <<Service(1, <<K8sService(<<P>>, "")>>, <<>>)>>]) :
     legacy \in LegacyListings,
     cluster \in {ListingError} \cup
                 {Listing([n \in DOMAIN choice |->
                              ClusterPlugin(EntityNames[n], choice[n].pluginName, choice[n].converts)]) :
                  choice \in SeqsUpTo(ClusterPluginChoices, MaxClusterPlugins)}}

Certificate(n) == [ID |-> n, Cert |-> "cert-" \o n, Key |-> "key-" \o n]

\* Snapshots with certificates and a version, and a consumer with a
\* credential to fill in.
SanitizeWorlds ==
    {World([BaseStore EXCEPT !.Consumers =
                <<KongConsumer(NS, <<"b">>, "alice", "", <<"key", "oauth">>, <<>>)>>],
           [BaseKS EXCEPT !.Services = <<Service(1, <<K8sService(<<P>>, "ki")>>, <<Ingress(NS, <<>>, "")>>)>>,
                          !.Certificates = certs, !.CACertificates = cas, !.Version = version]) :
     certs \in SeqsUpTo({Certificate("1"), Certificate("2")}, 2),
     cas \in {<<>>, <<"ca-1">>},
     version \in {ZeroVersion, "2.8.0", "3.0.0"}}

Worlds ==
    CredentialWorlds \cup ConsumerWorlds \cup OverrideWorlds \cup PluginWorlds
    \cup GlobalPluginWorlds \cup SanitizeWorlds

\* The state after construction: the snapshot as built before the passes
\* run, nothing run yet.
InitIn(worlds) ==
    /\ \E w \in worlds : store = w.store /\ ks = w.ks
    /\ copy = NoCopy
    /\ crashed = FALSE
    /\ last = "none"
    /\ nCons = 0

Init == InitIn(Worlds)

\* ------------------------------------------------------------------ actions

\* Lines 51-134: the consumers of the index are appended to ks.Consumers in
\* the order the range over the index visits them.
FillConsumersAndCredentials ==
    /\ ~crashed
    /\ nCons < MaxRuns
    /\ LET consumerIndex == ConsumerIndex(store) IN
       \E order \in Orders(DOMAIN consumerIndex) :
           ks' = [ks EXCEPT !.Consumers = @ \o [n \in DOMAIN order |-> consumerIndex[order[n]]]]
    /\ nCons' = nCons + 1
    /\ last' = "FillConsumersAndCredentials"
    /\ copy' = NoCopy
    /\ UNCHANGED <<store, crashed>>

\* Lines 136-179.
FillOverrides ==
    /\ ~crashed
    /\ ks' = FillOverridesOf(store, ks)
    /\ last' = "FillOverrides"
    /\ copy' = NoCopy
    /\ UNCHANGED <<store, crashed, nCons>>

\* Lines 341-343: ks.Plugins is replaced by what buildPlugins returns; a nil
\* Username read by getPluginRelations panics instead.
FillPlugins ==
    /\ ~crashed
    /\ IF RelationsPanic(ks)
       THEN crashed' = TRUE /\ ks' = ks
       ELSE /\ crashed' = crashed
            /\ \E plugins \in buildPlugins(store, getPluginRelations(ks)) :
                   ks' = [ks EXCEPT !.Plugins = plugins]
    /\ last' = "FillPlugins"
    /\ copy' = NoCopy
    /\ UNCHANGED <<store, nCons>>

\* Lines 30-49.
SanitizedCopy ==
    /\ ~crashed
    /\ copy' = SanitizedCopyOf(ks)
    /\ last' = "SanitizedCopy"
    /\ UNCHANGED <<store, ks, crashed, nCons>>

Next ==
    \/ FillConsumersAndCredentials
    \/ FillOverrides
    \/ FillPlugins
    \/ SanitizedCopy

Spec == Init /\ [][Next]_vars

SpecCredentials == InitIn(CredentialWorlds) /\ [][Next]_vars
SpecConsumers == InitIn(ConsumerWorlds) /\ [][Next]_vars
SpecOverrides == InitIn(OverrideWorlds) /\ [][Next]_vars
SpecPlugins == InitIn(PluginWorlds) /\ [][Next]_vars
SpecGlobalPlugins == InitIn(GlobalPluginWorlds) /\ [][Next]_vars
SpecSanitize == InitIn(SanitizeWorlds) /\ [][Next]_vars

\* ------------------------------------------------------------------- claims

\* The declared plugin lists of the store, as the claims speak of them.
ClusterDeclarations == store.GlobalKongClusterPlugins.items

IsGlobal(plugin) == plugin.Service = Nil /\ plugin.Route = Nil /\ plugin.Consumer = Nil

GlobalPluginsOf(plugins) == SelectSeq(plugins, IsGlobal)

Carriers(pluginName) ==
    {n \in DOMAIN ClusterDeclarations : ClusterDeclarations[n].PluginName = pluginName}

EmittedNames(res) == {res[n].Name : n \in DOMAIN res}

\* C1: whatever the order of the cluster-scoped declarations and whether or
\* not each converts, FillPlugins emits no global plugin for a non-empty name
\* that two or more declarations carry, and emits the same names for every
\* permutation of the declarations.
C1_CollidingGlobalPluginsOmitted ==
    last = "FillPlugins" =>
        /\ \A n \in DOMAIN GlobalPluginsOf(ks.Plugins) :
               Cardinality(Carriers(GlobalPluginsOf(ks.Plugins)[n].Name)) < 2
        /\ \A order \in Orders(DOMAIN ClusterDeclarations) :
               EmittedNames(DeduplicatedPlugins(store,
                   [n \in DOMAIN order |-> ClusterDeclarations[order[n]]]))
               = EmittedNames(DeduplicatedPlugins(store, ClusterDeclarations))

SameStep(pass) == last = pass /\ last' = pass

\* C2: a pass run twice in a row leaves the slice it owns with the same
\* entries, each the same number of times, as after the first run.
C2_PassesIdempotent ==
    [][/\ SameStep("FillConsumersAndCredentials") => SameBag(ks'.Consumers, ks.Consumers)
       /\ SameStep("FillOverrides") => ks'.Services = ks.Services /\ ks'.Upstreams = ks.Upstreams
       /\ SameStep("FillPlugins") => SameBag(ks'.Plugins, ks.Plugins)]_vars

\* C3: no pass crashes, whatever the store holds.
C3_NoCrash == ~crashed

OwnOverride(entity, lookup) ==
    /\ lookup.err => entity.Override = DefaultOverride
    /\ ~lookup.err /\ lookup.ki # Nil => entity.Override = lookup.ki

\* C4: after FillOverrides every service, route and upstream has the
\* override of its own lookup, or its defaults when its own lookup failed,
\* whatever became of the lookups of the other entities.
C4_OverrideLookupsIndependent ==
    last = "FillOverrides" =>
        /\ \A i \in DOMAIN ks.Services :
               /\ OwnOverride(ks.Services[i],
                              getKongIngressForServices(store, ks.Services[i].K8sServices))
               /\ \A j \in DOMAIN ks.Services[i].Routes :
                      OwnOverride(ks.Services[i].Routes[j],
                                  getKongIngressFromObjectMeta(store, ks.Services[i].Routes[j].Ingress))
        /\ \A i \in DOMAIN ks.Upstreams :
               OwnOverride(ks.Upstreams[i],
                           getKongIngressForServices(store, ks.Upstreams[i].Service.K8sServices))

\* C5: SanitizedCopy leaves its receiver as it was, and the copy has the
\* receiver's Services, Upstreams, CACertificates, Plugins and Version, and
\* as many Certificates and Consumers, in the same order.
C5_SanitizedCopyKeepsStructure ==
    [][last' = "SanitizedCopy" =>
        /\ ks' = ks
        /\ copy'.Services = ks.Services
        /\ copy'.Upstreams = ks.Upstreams
        /\ copy'.CACertificates = ks.CACertificates
        /\ copy'.Plugins = ks.Plugins
        /\ copy'.Version = ks.Version
        /\ Len(copy'.Certificates) = Len(ks.Certificates)
        /\ \A n \in DOMAIN ks.Certificates : copy'.Certificates[n].ID = ks.Certificates[n].ID
        /\ Len(copy'.Consumers) = Len(ks.Consumers)
        /\ \A n \in DOMAIN ks.Consumers :
               copy'.Consumers[n].K8sKongConsumer = ks.Consumers[n].K8sKongConsumer]_vars

\* What the store holds for a credential reference.
HasSecret(namespace, name) == <<namespace, name>> \in DOMAIN Secrets

SecretOf(namespace, name) == Secrets[<<namespace, name>>]

KindOf(namespace, name) ==
    IF HasSecret(namespace, name) /\ "kongCredType" \in DOMAIN SecretOf(namespace, name)
    THEN SecretOf(namespace, name).kongCredType
    ELSE "<none>"

\* A reference whose secret is fetched and is a valid credential.
ValidReference(namespace, name) ==
    /\ KindOf(namespace, name) \in SupportedTypes
    /\ Cardinality(DOMAIN SecretOf(namespace, name)) > 1
    /\ RequiredField(KindOf(namespace, name)) \in DOMAIN SecretOf(namespace, name)

ReferencesOf(c) == c.K8sKongConsumer.Credentials

ValidReferencesOf(c) ==
    SelectSeq(ReferencesOf(c), LAMBDA name : ValidReference(c.K8sKongConsumer.Namespace, name))

KindCount(c, kind) ==
    Cardinality({n \in DOMAIN c.Credentials : c.Credentials[n].kind = kind})

\* C6: every credential of a materialized consumer has a supported kind; a
\* secret with a missing or unsupported kongCredType contributes none, and
\* the consumer has one credential of each kind for each of its valid
\* references of that kind.
C6_CredentialKindsSupported ==
    \A n \in DOMAIN ks.Consumers :
        LET c == ks.Consumers[n] IN
        /\ \A i \in DOMAIN c.Credentials : c.Credentials[i].kind \in SupportedTypes
        /\ \A kind \in SupportedTypes \cup {"bogus", "", "<none>"} :
               KindCount(c, kind) =
               Cardinality({i \in DOMAIN ValidReferencesOf(c) :
                               KindOf(c.K8sKongConsumer.Namespace, ValidReferencesOf(c)[i]) = kind})

C6_Witness ==
    \E n \in DOMAIN ks.Consumers :
        /\ Len(ReferencesOf(ks.Consumers[n])) = 2
        /\ ReferencesOf(ks.Consumers[n])[1] \in {"bogus", "nokind"}
        /\ ReferencesOf(ks.Consumers[n])[2] = "basic"
        /\ Len(ks.Consumers[n].Credentials) = 1

HasIdentity(consumer) == consumer.Username # "" \/ consumer.CustomID # ""

SameObject(a, b) == a.Namespace = b.Namespace /\ a.Name = b.Name

Materializations(consumer) ==
    {n \in DOMAIN ks.Consumers : SameObject(ks.Consumers[n].K8sKongConsumer, consumer)}

\* C7: every consumer of the snapshot has a username or a customID; a
\* KongConsumer with neither is never materialized, and each run of the pass
\* materializes once each namespace and name that a KongConsumer with an
\* identity carries.
C7_ConsumersHaveIdentity ==
    /\ \A n \in DOMAIN ks.Consumers :
           /\ HasIdentity(ks.Consumers[n].K8sKongConsumer)
           /\ ks.Consumers[n].Username \notin {Nil, ""} \/ ks.Consumers[n].CustomID \notin {Nil, ""}
           /\ \E i \in DOMAIN store.Consumers : store.Consumers[i] = ks.Consumers[n].K8sKongConsumer
    /\ \A i \in DOMAIN store.Consumers :
           Cardinality(Materializations(store.Consumers[i])) =
           IF \E j \in DOMAIN store.Consumers :
                  SameObject(store.Consumers[j], store.Consumers[i]) /\ HasIdentity(store.Consumers[j])
           THEN nCons ELSE 0

C7_Witness ==
    /\ nCons = 1
    /\ Len(ks.Consumers) = 1
    /\ \E i, j \in DOMAIN store.Consumers :
           ~HasIdentity(store.Consumers[i]) /\ HasIdentity(store.Consumers[j])

\* C8: once the pass has run, a consumer with a credential secret that
\* cannot be fetched is still in the snapshot, and carries, in order, the
\* credential of every reference whose secret is fetched and valid, wherever
\* the failing reference stands in its list.
C8_FetchFailureSkipsOneCredential ==
    /\ nCons >= 1 =>
           \A i \in DOMAIN store.Consumers :
               HasIdentity(store.Consumers[i]) => Materializations(store.Consumers[i]) # {}
    /\ \A n \in DOMAIN ks.Consumers :
           LET c == ks.Consumers[n]
               valid == ValidReferencesOf(c)
           IN /\ Len(c.Credentials) = Len(valid)
              /\ \A i \in DOMAIN valid :
                     c.Credentials[i].config["kongCredType"] = KindOf(c.K8sKongConsumer.Namespace, valid[i])
                     /\ DOMAIN c.Credentials[i].config = DOMAIN SecretOf(c.K8sKongConsumer.Namespace, valid[i])

C8_Witness ==
    \E n \in DOMAIN ks.Consumers :
        /\ ReferencesOf(ks.Consumers[n]) = <<"missing", "key">>
        /\ Len(ks.Consumers[n].Credentials) = 1
        /\ ks.Consumers[n].Credentials[1].kind = "key-auth"

References(list, pluginName) == \E n \in DOMAIN list : list[n] = pluginName

RoutesOf(k) ==
    UNION {{<<i, j>> : j \in DOMAIN k.Services[i].Routes} : i \in DOMAIN k.Services}

ReferencingRoutes(namespace, pluginName) ==
    {r \in RoutesOf(ks) :
        /\ ks.Services[r[1]].Routes[r[2]].Ingress.Namespace = namespace
        /\ References(ks.Services[r[1]].Routes[r[2]].Ingress.Plugins, pluginName)}

OnlyRoutesReference(namespace, pluginName) ==
    /\ \A i \in DOMAIN ks.Services : \A n \in DOMAIN ks.Services[i].K8sServices :
           ~(/\ ks.Services[i].K8sServices[n].Namespace = namespace
             /\ References(ks.Services[i].K8sServices[n].Plugins, pluginName))
    /\ \A n \in DOMAIN ks.Consumers :
           ~(/\ ks.Consumers[n].K8sKongConsumer.Namespace = namespace
             /\ References(ks.Consumers[n].K8sKongConsumer.Plugins, pluginName))

InstancesOf(declaration) == SelectSeq(ks.Plugins, LAMBDA plugin : plugin.Source = declaration)

\* C9: for a plugin declaration that only routes reference, FillPlugins
\* emits one instance per referencing route, bound to that route alone, and
\* no instance for any other service or route.
C9_OneInstancePerReferencingRoute ==
    last = "FillPlugins" /\ ~crashed =>
        \A declaration \in DOMAIN KongPlugins :
            LET routes == ReferencingRoutes(declaration[1], declaration[2])
                instances == InstancesOf(declaration)
            IN OnlyRoutesReference(declaration[1], declaration[2]) =>
                   /\ Len(instances) = Cardinality(routes)
                   /\ \A n \in DOMAIN instances :
                          /\ instances[n].Service = Nil
                          /\ instances[n].Consumer = Nil
                          /\ \E r \in routes : instances[n].Route = ks.Services[r[1]].Routes[r[2]].Name
                   /\ \A r \in routes :
                          Cardinality({n \in DOMAIN instances :
                              instances[n].Route = ks.Services[r[1]].Routes[r[2]].Name}) = 1

\* C10: the plugins FillPlugins leaves in the snapshot are those it would
\* leave whatever the legacy listing answers: an empty list, a list, an error.
C10_LegacySourceAdvisoryOnly ==
    last = "FillPlugins" /\ ~crashed =>
        \A legacy \in LegacyListings :
            \E plugins \in buildPlugins([store EXCEPT !.GlobalKongPlugins = legacy],
                                        getPluginRelations(ks)) :
                SameBag(plugins, ks.Plugins)

====
